---- MODULE Spec2Model ----
(***************************************************************************)
(* Model of the reliability layer of maicro_monitors:                      *)
(*   - the staging buffer (modules/buffer_manager.py) and its dual-target  *)
(*     flush (scheduled_processes/flush_hyperliquid_buffers.py);           *)
(*   - the cloud -> on-premise down-sync                                   *)
(*     (scheduled_processes/pull_data_downward_from_cloud.py).             *)
(* A destination is modelled by the rows its INSERT statements delivered;  *)
(* an execute() that raises is an insert that delivered nothing.           *)
(***************************************************************************)
EXTENDS Integers, Sequences, FiniteSets, TLC

\* ---------------------------------------------------------------- bounds
MaxTime == 2
MaxRows == 2
MaxBatch == 2
MaxFaults == 2
MaxRuns == 2
MaxSrcRows == 2
MaxTick == 8
MaxSyncFaults == 1
MaxSyncRuns == 2
MaxCols == 3

\* ------------------------------------------------------------- constants
Times == 1..MaxTime
RowIds == 1..MaxRows
Cols == {"a", "b", "c", "d"}
Dests == {"local", "remote"}
Flushers == {1, 2}

PREFIX_TABLES ==
  << <<"account", "maicro_monitors.account_snapshots">>,
     <<"trades", "maicro_monitors.trades">> >>

REPLACING_MERGE_TREE_PREFIXES == {"trades"}

Prefixes == {PREFIX_TABLES[i][1] : i \in 1..Len(PREFIX_TABLES)}
Tables == {PREFIX_TABLES[i][2] : i \in 1..Len(PREFIX_TABLES)}

\* column sets a staged batch may carry (the columns of the DataFrame saved)
BatchCols == {{"a", "b", "c", "d"}, {"a", "b"}}

\* (local table columns, remote table columns) as DESCRIBE TABLE reports them
Schemas ==
  { [local |-> <<"a", "b", "c">>, remote |-> <<"a", "b", "d">>],
    [local |-> <<"b", "a">>,      remote |-> <<"a", "b", "c">>],
    [local |-> <<"c">>,           remote |-> <<"a", "b">>],
    [local |-> <<"a", "b">>,      remote |-> <<"c">>] }

VARIABLES
  staging,    \* data/buffer: prefix -> timestamp of the file name -> file
  bufferDir,  \* whether data/buffer exists
  schema,     \* the two destinations' table columns
  dest,       \* destination -> table -> row -> number of times delivered
  fl,         \* flusher -> state of its run of main()/flush_prefix
  nextRow,    \* next fresh row identity
  faults,     \* kind of failure -> failures injected so far
  runs,       \* runs of main() started so far
  partial,    \* history: row -> calls whose local insert delivered it and
              \* whose remote insert then failed
  srcRows,    \* cloud: (table, instant) -> number of rows written there
  tgtDbs,     \* on-premise: the databases that exist
  tgtTables,  \* on-premise: the tables that exist
  tgtRows,    \* on-premise: (table, instant) -> number of rows held
  sy,         \* syncer -> state of its run of main()/sync_database
  sfaults,    \* failures injected into the down-sync so far
  sruns,      \* runs of the down-sync started so far
  settled,    \* history: tables whose last incremental insert succeeded and
              \* whose source and target were not written since
  copies,     \* history: table -> unfiltered full copies issued for it
  columns,    \* cursor inference alone: the system.columns rows of a table
  picked,     \* cursor inference alone: what find_date_column returned
  crontab,    \* register_cron alone: the lines `crontab -l` prints
  previous,   \* history: the crontab the last registration started from
  registered, \* history: registrations run so far
  definition, \* DDL conversion alone: the table definition SHOW CREATE gave
  create_statement, \* DDL conversion alone: the statement as converted so far
  conversions \* history: conversions applied to the statement

flushVars == <<staging, bufferDir, schema, dest, fl, nextRow, faults, runs, partial>>
syncVars ==
  <<srcRows, tgtDbs, tgtTables, tgtRows, sy, sfaults, sruns, settled, copies>>
inferVars == <<columns, picked>>
cronVars == <<crontab, previous, registered>>
ddlVars == <<definition, create_statement, conversions>>
toolVars == <<cronVars, ddlVars>>
vars == <<flushVars, syncVars, inferVars, toolVars>>

\* ---------------------------------------------------------------- helpers
Absent == [rows |-> <<>>, cols |-> {}]
Present(prefix, t) == staging[prefix][t] # Absent

Range(s) == {s[i] : i \in 1..Len(s)}

RECURSIVE SortedSeq(_)
\* sorted(...) of a set of timestamps: ascending
SortedSeq(S) ==
  IF S = {} THEN <<>>
  ELSE LET m == CHOOSE x \in S : \A y \in S : x <= y
       IN <<m>> \o SortedSeq(S \ {m})

RECURSIVE Filter(_, _)
\* [c for c in s if c in keep]
Filter(s, keep) ==
  IF s = <<>> THEN <<>>
  ELSE (IF Head(s) \in keep THEN <<Head(s)>> ELSE <<>>) \o Filter(Tail(s), keep)

\* faulty variant: the remote table's columns are not consulted
common_insert_columns_noremote(local_cols, remote_cols, df_cols) ==
  Filter(local_cols, df_cols)

\* _common_insert_columns: [c for c in local_cols if c in remote_cols and c in df_cols]
common_insert_columns(local_cols, remote_cols, df_cols) ==
  Filter(local_cols, Range(remote_cols) \cap df_cols)

\* s.startswith(p), s.endswith(p)
startswith(s, p) == Len(s) >= Len(p) /\ SubSeq(s, 1, Len(p)) = p
endswith(s, p) == Len(s) >= Len(p) /\ SubSeq(s, Len(s) - Len(p) + 1, Len(s)) = p

\* the categories the ingest saves batches under, one per entry of the
\* source's PREFIX_TABLES (the flush model above keeps two of them)
CategoryPrefixes ==
  {"account", "positions", "trades", "orders", "funding", "ledger", "candles", "meta"}

\* f"{prefix}_{timestamp_str}.parquet", the clock reading t written as
\* %Y%m%d_%H%M%S_%f
FileName(prefix, t) ==
  prefix \o "_" \o "20240101_000000_00000" \o SubSeq("0123456789", t + 1, t + 1) \o ".parquet"

\* faulty variant: the pattern does not name the category
glob_any(name, prefix) == endswith(name, ".parquet")

\* the file name matches the pattern f"{prefix}_*.parquet"
glob(name, prefix) ==
  /\ Len(name) >= Len(prefix) + 1 + Len(".parquet")
  /\ startswith(name, prefix \o "_")
  /\ endswith(name, ".parquet")

\* the locals of one flush_prefix call, plus what the call did so far
\* (unreadable: the files whose read_parquet raised; appended: the batches
\* saved while the call was under way, where a specification records them)
IdleCall ==
  [ pc |-> "idle", idx |-> 0, files |-> <<>>, pos |-> 0, dfs |-> <<>>,
    valid_files |-> <<>>, df |-> Absent, cols |-> <<>>, values |-> <<>>,
    local |-> "none", remote |-> "none", optimize |-> "none",
    sent |-> [d \in Dests |-> <<>>], removed |-> {}, delfail |-> {},
    unreadable |-> {}, appended |-> {} ]

NewCall(i) == [IdleCall EXCEPT !.pc = "list", !.idx = i]

Prefix(p) == PREFIX_TABLES[fl[p].idx][1]
Table(p) == PREFIX_TABLES[fl[p].idx][2]

FaultKinds == {"read", "describe", "insert_local", "insert_remote", "optimize", "delete"}

RECURSIVE Sum(_, _)
Sum(f, S) == IF S = {} THEN 0
             ELSE LET x == CHOOSE y \in S : TRUE IN f[x] + Sum(f, S \ {x})

CanFault == Sum(faults, DOMAIN faults) < MaxFaults

Fault(kind, ok) ==
  /\ (~ok) => CanFault
  /\ faults' = IF ok THEN faults ELSE [faults EXCEPT ![kind] = @ + 1]

\* rows of a DataFrame added to a destination table
Deliver(d, table, rows) ==
  [dest EXCEPT ![d][table] =
     [r \in RowIds |-> @[r] + Cardinality({i \in 1..Len(rows) : rows[i] = r})]]

\* ------------------------------------------------- down-sync: statics
Syncers == {1, 2}
TicksPerSec == 2
SecsPerDay == 2
TicksPerDay == TicksPerSec * SecsPerDay
Epoch == 0
Null == -1

DATABASES_TO_SYNC == <<"maicro_logs", "maicro_monitors">>

CURSOR_OVERRIDES ==
  ( <<"maicro_monitors", "trades">> :> "time" @@
    <<"maicro_monitors", "hl_meta">> :> "updated_at" @@
    <<"maicro_logs", "live_trades">> :> "ts" @@
    <<"maicro_logs", "positions_jianan">> :> "inserted_at" )

SKIP_TABLES == {<<"maicro_logs", "positions_jianan">>}

\* system.tables / system.columns of the cloud source, tables by name
SourceTables ==
  [ maicro_logs |->
      << [name |-> "live_trades", engine |-> "SharedMergeTree",
          columns |-> << <<"id", "UInt64">>, <<"ts", "DateTime64(3)">> >>],
         [name |-> "positions_jianan", engine |-> "SharedMergeTree",
          columns |-> << <<"inserted_at", "DateTime">> >>],
         [name |-> "v_live", engine |-> "View",
          columns |-> << <<"ts", "DateTime">> >>] >>,
    maicro_monitors |->
      << [name |-> "hl_meta", engine |-> "SharedReplacingMergeTree",
          columns |-> << <<"symbol", "String">>, <<"date", "Date">> >>],
         [name |-> "te_multilag", engine |-> "SharedMergeTree",
          columns |-> << <<"inserted_date", "Date">>, <<"event_time", "DateTime">>,
                         <<"val", "Float64">> >>],
         [name |-> "trades", engine |-> "SharedReplacingMergeTree",
          columns |-> << <<"time", "DateTime">>, <<"timestamp", "DateTime">>,
                         <<"px", "Float64">> >>] >> ]

Databases == Range(DATABASES_TO_SYNC)
TableKeys ==
  UNION {{<<db, SourceTables[db][i].name>> : i \in 1..Len(SourceTables[db])} :
           db \in Databases}
TableRec(key) ==
  LET db == key[1]
      i == CHOOSE j \in 1..Len(SourceTables[db]) : SourceTables[db][j].name = key[2]
  IN SourceTables[db][i]

\* the tables the source writes rows to in the model: one per cursor type
DataTables ==
  { <<"maicro_logs", "live_trades">>, <<"maicro_monitors", "hl_meta">>,
    <<"maicro_monitors", "trades">> }

\* s LIKE '%kw%', Python's kw in s
Contains(s, kw) ==
  \E i \in 1..(Len(s) - Len(kw) + 1) : SubSeq(s, i, i + Len(kw) - 1) = kw

ColumnType(key, column) ==
  LET cs == TableRec(key).columns
      i == CHOOSE j \in 1..Len(cs) : cs[j][1] = column
  IN cs[i][2]
HasColumn(key, column) ==
  \E j \in 1..Len(TableRec(key).columns) : TableRec(key).columns[j][1] = column

FloorTo(v, unit) == (v \div unit) * unit

ColumnTypes ==
  UNION {{TableRec(key).columns[j][2] : j \in 1..Len(TableRec(key).columns)} :
           key \in TableKeys}

\* the resolution of a column type: sub-second, second or day
Unit ==
  [type \in ColumnTypes |->
     IF Contains(type, "DateTime64") THEN 1
     ELSE IF Contains(type, "DateTime") THEN TicksPerSec
     ELSE TicksPerDay]

\* the value a column of the given type holds for a row written at an instant
Stored(type, tick) == FloorTo(tick, Unit[type])

\* type LIKE '%Date%' OR type LIKE '%Time%'
IsDateOrTime ==
  [type \in ColumnTypes |-> Contains(type, "Date") \/ Contains(type, "Time")]

\* "Date" in col_type and "DateTime" not in col_type
IsDateOnly ==
  [type \in ColumnTypes |-> Contains(type, "Date") /\ ~Contains(type, "DateTime")]

\* the instants a row of the table can carry: those one of its date/time
\* columns stores unchanged
Instants(key) ==
  {tick \in TicksPerDay..MaxTick :
     \E j \in 1..Len(TableRec(key).columns) :
       LET ty == TableRec(key).columns[j][2]
       IN IsDateOrTime[ty] /\ Stored(ty, tick) = tick}

RowKinds == UNION {{<<key, tick>> : tick \in Instants(key)} : key \in DataTables}

IdleSync ==
  [ pc |-> "idle", dbi |-> 0, ti |-> 0, tables |-> <<>>, bootstrapped |-> FALSE,
    probe |-> "none", date_column |-> "", inferred |-> FALSE,
    max_date |-> Null, col_type |-> "", max_str |-> Null,
    insert |-> "none", inserted |-> {}, wasSettled |-> FALSE,
    erred |-> FALSE, attempted |-> FALSE ]

InitSyncVars ==
  /\ srcRows = [k \in RowKinds |-> 0]
  /\ tgtDbs = {}
  /\ tgtTables = {}
  /\ tgtRows = [k \in RowKinds |-> 0]
  /\ sy = [p \in Syncers |-> IdleSync]
  /\ sfaults = 0
  /\ sruns = 0
  /\ settled = {}
  /\ copies = [k \in TableKeys |-> 0]

InitInferVars ==
  /\ columns = {}
  /\ picked = "unasked"

\* ------------------------------------------------------------------ Init
\* no crontab is looked at outside register_cron
InitCronVars ==
  /\ crontab = <<>>
  /\ previous = <<>>
  /\ registered = 0

\* no table definition is converted outside sync_table_initial
InitDdlVars ==
  /\ definition = [head |-> "", engine |-> "", args |-> "", tail |-> ""]
  /\ create_statement = ""
  /\ conversions = 0

InitToolVars == InitCronVars /\ InitDdlVars

InitFlushVars ==
  /\ staging = [pr \in Prefixes |-> [t \in Times |-> Absent]]
  /\ bufferDir = FALSE
  /\ dest = [d \in Dests |-> [tb \in Tables |-> [r \in RowIds |-> 0]]]
  /\ fl = [p \in Flushers |-> IdleCall]
  /\ nextRow = 1
  /\ faults = [k \in FaultKinds |-> 0]
  /\ runs = 0
  /\ partial = [r \in RowIds |-> 0]

\* ------------------------------------------------- BufferManager.save
\* t is the reading of datetime.now() that names the file; a file of the
\* same name is replaced by to_parquet.
to_parquet(prefix, t, n, bc) ==
  /\ nextRow + n - 1 <= MaxRows
  /\ IF n = 0
       THEN UNCHANGED <<staging, bufferDir, nextRow>>
       ELSE /\ bufferDir' = TRUE
            /\ staging' = [staging EXCEPT ![prefix][t] =
                 [rows |-> [i \in 1..n |-> nextRow + i - 1], cols |-> bc]]
            /\ nextRow' = nextRow + n
  /\ UNCHANGED <<schema, dest, faults, runs, partial, syncVars, inferVars, toolVars>>

save(prefix, t, n, bc) ==
  /\ to_parquet(prefix, t, n, bc)
  /\ UNCHANGED fl

\* flush_prefix call p is between its start and its return
Running(p) == fl[p].pc \notin {"idle", "done", "crashed"}

\* save, with the batch entered in the history of flush call p when that
\* call is under way (listed: the call had listed its files by then)
SaveDuring(p, prefix, t, n, bc) ==
  /\ to_parquet(prefix, t, n, bc)
  /\ fl' = [fl EXCEPT ![p].appended =
       IF n > 0 /\ Running(p)
         THEN @ \cup {[prefix |-> prefix, t |-> t,
                       rows |-> [i \in 1..n |-> nextRow + i - 1],
                       listed |-> fl[p].pc # "list"]}
         ELSE @]

\* ------------------------------------------------------------- main()
FlushStart(p) ==
  /\ fl[p].pc \in {"idle", "done", "crashed"}
  /\ runs < MaxRuns
  /\ runs' = runs + 1
  /\ fl' = [fl EXCEPT ![p] =
       IF bufferDir THEN NewCall(1) ELSE [IdleCall EXCEPT !.pc = "done"]]
  /\ UNCHANGED <<staging, bufferDir, schema, dest, nextRow, faults, partial, syncVars, inferVars, toolVars>>

\* ------------------------------------------------------- flush_prefix
\* faulty variant: an empty column list does not stop the flush
AfterReconcile_noguard(cols) == "insert_local"

\* if not cols: return
AfterReconcile(cols) == IF cols = <<>> THEN "ret" ELSE "insert_local"

\* faulty variant: the remote insert has a try block of its own
AfterLocalInsert_separate(ok) == "insert_remote"

\* an exception of the local INSERT leaves the try block: except, return
AfterLocalInsert(ok) == IF ok THEN "insert_remote" ELSE "ret"

\* faulty variant: the files are deleted whatever the remote insert did
AfterRemoteInsert_nocheck(prefix, ok) ==
  IF prefix \in REPLACING_MERGE_TREE_PREFIXES THEN "optimize" ELSE "delete"

\* an exception of the remote INSERT: except, return; otherwise OPTIMIZE for
\* the ReplacingMergeTree prefixes, then the deletion of the files
AfterRemoteInsert(prefix, ok) ==
  IF ~ok THEN "ret"
  ELSE IF prefix \in REPLACING_MERGE_TREE_PREFIXES THEN "optimize" ELSE "delete"

\* files = sorted(glob.glob(pattern)); if not files: return
FlushList(p) ==
  /\ fl[p].pc = "list"
  /\ LET files == SortedSeq({t \in Times : \E pr \in Prefixes :
                              Present(pr, t) /\ glob(FileName(pr, t), Prefix(p))})
     IN fl' = [fl EXCEPT ![p].files = files,
                         ![p].pos = 1,
                         ![p].pc = IF files = <<>> THEN "ret" ELSE "read"]
  /\ UNCHANGED <<staging, bufferDir, schema, dest, nextRow, faults, runs, partial, syncVars, inferVars, toolVars>>

\* faulty variant: the file is noted as valid before it is read
AfterRead_always(valid_files, f, readable) == Append(valid_files, f)

\* valid_files.append(f) follows read_parquet(f) inside the try block
AfterRead(valid_files, f, readable) ==
  IF readable THEN Append(valid_files, f) ELSE valid_files

\* one turn of the loop over files: pd.read_parquet(f), errors skipped
FlushRead(p, ok) ==
  /\ fl[p].pc = "read"
  /\ fl[p].pos <= Len(fl[p].files)
  /\ LET f == fl[p].files[fl[p].pos]
         readable == ok /\ Present(Prefix(p), f)
     IN /\ (~ok) => Present(Prefix(p), f)
        /\ Fault("read", ok)
        /\ fl' = [fl EXCEPT
             ![p].pos = @ + 1,
             ![p].dfs = IF readable THEN Append(@, staging[Prefix(p)][f]) ELSE @,
             ![p].valid_files = AfterRead(@, f, readable),
             ![p].unreadable = IF ok THEN @ ELSE @ \cup {f}]
  /\ UNCHANGED <<staging, bufferDir, schema, dest, nextRow, runs, partial, syncVars, inferVars, toolVars>>

\* end of the loop: df = pd.concat(dfs); returns when nothing was read
FlushConcat(p) ==
  /\ fl[p].pc = "read"
  /\ fl[p].pos > Len(fl[p].files)
  /\ LET dfs == fl[p].dfs
         RECURSIVE Rows(_)
         Rows(i) == IF i > Len(dfs) THEN <<>> ELSE dfs[i].rows \o Rows(i + 1)
         df == [rows |-> Rows(1),
                cols |-> UNION {dfs[i].cols : i \in 1..Len(dfs)}]
     IN fl' = [fl EXCEPT
          ![p].df = df,
          ![p].pc = IF dfs = <<>> \/ df.rows = <<>> THEN "ret" ELSE "describe"]
  /\ UNCHANGED <<staging, bufferDir, schema, dest, nextRow, faults, runs, partial, syncVars, inferVars, toolVars>>

\* cols = _common_insert_columns(...), outside any try: a DESCRIBE that
\* raises ends the run of main(); if not cols: return
FlushDescribe(p, ok) ==
  /\ fl[p].pc = "describe"
  /\ Fault("describe", ok)
  /\ LET cols == common_insert_columns(schema.local, schema.remote, fl[p].df.cols)
     IN fl' = [fl EXCEPT
          ![p].cols = IF ok THEN cols ELSE @,
          ![p].values = IF ok /\ cols # <<>> THEN fl[p].df.rows ELSE @,
          ![p].pc = IF ~ok THEN "crashed" ELSE AfterReconcile(cols)]
  /\ UNCHANGED <<staging, bufferDir, schema, dest, nextRow, runs, partial, syncVars, inferVars, toolVars>>

\* local_client.execute(INSERT ...): first statement of the try block
FlushInsertLocal(p, ok) ==
  /\ fl[p].pc = "insert_local"
  /\ Fault("insert_local", ok)
  /\ dest' = IF ok THEN Deliver("local", Table(p), fl[p].values) ELSE dest
  /\ fl' = [fl EXCEPT
       ![p].local = IF ok THEN "ok" ELSE "failed",
       ![p].sent["local"] = fl[p].cols,
       ![p].pc = AfterLocalInsert(ok)]
  /\ UNCHANGED <<staging, bufferDir, schema, nextRow, runs, partial, syncVars, inferVars, toolVars>>

\* remote_client.execute(INSERT ...): reached only when the local one returned
FlushInsertRemote(p, ok) ==
  /\ fl[p].pc = "insert_remote"
  /\ Fault("insert_remote", ok)
  /\ dest' = IF ok THEN Deliver("remote", Table(p), fl[p].values) ELSE dest
  /\ partial' = IF ok THEN partial
                ELSE [r \in RowIds |->
                        IF r \in Range(fl[p].values) THEN partial[r] + 1
                        ELSE partial[r]]
  /\ fl' = [fl EXCEPT
       ![p].remote = IF ok THEN "ok" ELSE "failed",
       ![p].sent["remote"] = fl[p].cols,
       ![p].pc = AfterRemoteInsert(Prefix(p), ok),
       ![p].pos = 1]
  /\ UNCHANGED <<staging, bufferDir, schema, nextRow, runs, syncVars, inferVars, toolVars>>

\* faulty variant: a failed OPTIMIZE is handled like a failed insert
AfterOptimize_fatal(ok) == IF ok THEN "delete" ELSE "ret"

\* the except clause of the inner try only prints a warning
AfterOptimize(ok) == "delete"

\* OPTIMIZE TABLE ... FINAL on the local and then the remote target, both
\* in one try of their own; d is the target whose statement raised
FlushOptimize(p, ok, d) ==
  /\ fl[p].pc = "optimize"
  /\ Fault("optimize", ok)
  /\ ok => d = "local"
  /\ fl' = [fl EXCEPT ![p].optimize = IF ok THEN "ok" ELSE "failed_" \o d,
                      ![p].pc = AfterOptimize(ok)]
  /\ UNCHANGED <<staging, bufferDir, schema, dest, nextRow, runs, partial, syncVars, inferVars, toolVars>>

\* faulty variant: the file is reported as removed and stays on disk
Removed_kept(dir, prefix, f) == dir

\* os.remove(f) on the staging directory
Removed(dir, prefix, f) == [dir EXCEPT ![prefix][f] = Absent]

\* one turn of the loop over valid_files: os.remove(f), OSError logged
FlushDelete(p, ok) ==
  /\ fl[p].pc = "delete"
  /\ fl[p].pos <= Len(fl[p].valid_files)
  /\ LET f == fl[p].valid_files[fl[p].pos]
         gone == ~Present(Prefix(p), f)
     IN /\ (~ok) => ~gone
        /\ Fault("delete", ok)
        /\ staging' = IF ok THEN Removed(staging, Prefix(p), f) ELSE staging
        /\ fl' = [fl EXCEPT
             ![p].pos = @ + 1,
             ![p].removed = IF ok /\ ~gone THEN @ \cup {f} ELSE @,
             ![p].delfail = IF ok /\ ~gone THEN @ ELSE @ \cup {f}]
  /\ UNCHANGED <<bufferDir, schema, dest, nextRow, runs, partial, syncVars, inferVars, toolVars>>

\* "Flush complete; buffer cleared."
FlushCleared(p) ==
  /\ fl[p].pc = "delete"
  /\ fl[p].pos > Len(fl[p].valid_files)
  /\ fl' = [fl EXCEPT ![p].pc = "ret"]
  /\ UNCHANGED <<staging, bufferDir, schema, dest, nextRow, faults, runs, partial, syncVars, inferVars, toolVars>>

\* flush_prefix has returned: main() goes on to the next prefix
FlushReturn(p) ==
  /\ fl[p].pc = "ret"
  /\ fl' = [fl EXCEPT ![p] =
       IF fl[p].idx < Len(PREFIX_TABLES) THEN NewCall(fl[p].idx + 1)
       ELSE [@ EXCEPT !.pc = "done"]]
  /\ UNCHANGED <<staging, bufferDir, schema, dest, nextRow, faults, runs, partial, syncVars, inferVars, toolVars>>

\* --------------------------------------- the flush job, one run at a time
InitFlush ==
  /\ InitFlushVars
  /\ schema \in Schemas
  /\ InitSyncVars
  /\ InitInferVars
  /\ InitToolVars

NextFlush ==
  \/ \E prefix \in Prefixes, t \in Times, n \in 0..MaxBatch, bc \in BatchCols :
       save(prefix, t, n, bc)
  \/ FlushStart(1)
  \/ FlushList(1)
  \/ \E ok \in BOOLEAN : FlushRead(1, ok)
  \/ FlushConcat(1)
  \/ \E ok \in BOOLEAN : FlushDescribe(1, ok)
  \/ \E ok \in BOOLEAN : FlushInsertLocal(1, ok)
  \/ \E ok \in BOOLEAN : FlushInsertRemote(1, ok)
  \/ \E ok \in BOOLEAN, d \in Dests : FlushOptimize(1, ok, d)
  \/ \E ok \in BOOLEAN : FlushDelete(1, ok)
  \/ FlushCleared(1)
  \/ FlushReturn(1)

SpecFlush == InitFlush /\ [][NextFlush]_vars

\* the flush job with the saves made during a call kept in its history
NextWatch ==
  \/ \E prefix \in Prefixes, t \in Times, n \in 0..MaxBatch, bc \in BatchCols :
       SaveDuring(1, prefix, t, n, bc)
  \/ FlushStart(1)
  \/ FlushList(1)
  \/ \E ok \in BOOLEAN : FlushRead(1, ok)
  \/ FlushConcat(1)
  \/ \E ok \in BOOLEAN : FlushDescribe(1, ok)
  \/ \E ok \in BOOLEAN : FlushInsertLocal(1, ok)
  \/ \E ok \in BOOLEAN : FlushInsertRemote(1, ok)
  \/ \E ok \in BOOLEAN, d \in Dests : FlushOptimize(1, ok, d)
  \/ \E ok \in BOOLEAN : FlushDelete(1, ok)
  \/ FlushCleared(1)
  \/ FlushReturn(1)

SpecWatch == InitFlush /\ [][NextWatch]_vars

\* ------------------------------------------ column reconciliation alone
ColOrder == <<"a", "b", "c", "d">>

RECURSIVE Perms(_)
\* the duplicate-free column lists over a set of columns
Perms(S) ==
  IF S = {} THEN {<<>>}
  ELSE UNION {{<<x>> \o q : q \in Perms(S \ {x})} : x \in S}

ColumnLists == UNION {Perms(S) : S \in (SUBSET Cols) \ {{}}}

\* one staged batch of any column set, any pair of table schemas, and one
\* run of the flush without failures
InitReconcile ==
  /\ \E bc \in (SUBSET Cols) \ {{}} :
       staging = [pr \in Prefixes |-> [t \in Times |->
                    IF pr = "trades" /\ t = 1
                      THEN [rows |-> <<1>>, cols |-> bc] ELSE Absent]]
  /\ bufferDir = TRUE
  /\ \E l \in ColumnLists, R \in (SUBSET Cols) \ {{}} :
       schema = [local |-> l, remote |-> Filter(ColOrder, R)]
  /\ dest = [d \in Dests |-> [tb \in Tables |-> [r \in RowIds |-> 0]]]
  /\ fl = [p \in Flushers |-> IdleCall]
  /\ nextRow = 2
  /\ faults = [k \in FaultKinds |-> 0]
  /\ runs = 0
  /\ partial = [r \in RowIds |-> 0]
  /\ InitSyncVars
  /\ InitInferVars
  /\ InitToolVars

NextReconcile ==
  \/ FlushStart(1)
  \/ FlushList(1)
  \/ FlushRead(1, TRUE)
  \/ FlushConcat(1)
  \/ FlushDescribe(1, TRUE)
  \/ FlushInsertLocal(1, TRUE)
  \/ FlushInsertRemote(1, TRUE)
  \/ FlushOptimize(1, TRUE, "local")
  \/ FlushDelete(1, TRUE)
  \/ FlushCleared(1)
  \/ FlushReturn(1)

SpecReconcile == InitReconcile /\ [][NextReconcile]_vars

\* ------------------------------------ replay: flushes without any save
\* some batches of one row each are staged, no save happens any more, and
\* the flush job runs with failures of every kind
InitReplay ==
  /\ \E S \in (SUBSET (Prefixes \X Times)) \ {{}} :
       /\ Cardinality(S) <= MaxRows
       /\ \E g \in [S -> 1..Cardinality(S)] :
            /\ \A x, y \in S : g[x] = g[y] => x = y
            /\ staging = [pr \in Prefixes |-> [t \in Times |->
                 IF <<pr, t>> \in S
                   THEN [rows |-> <<g[<<pr, t>>]>>, cols |-> {"a", "b"}]
                   ELSE Absent]]
            /\ nextRow = Cardinality(S) + 1
  /\ bufferDir = TRUE
  /\ schema = [local |-> <<"a", "b", "c">>, remote |-> <<"a", "b", "d">>]
  /\ dest = [d \in Dests |-> [tb \in Tables |-> [r \in RowIds |-> 0]]]
  /\ fl = [p \in Flushers |-> IdleCall]
  /\ faults = [k \in FaultKinds |-> 0]
  /\ runs = 0
  /\ partial = [r \in RowIds |-> 0]
  /\ InitSyncVars
  /\ InitInferVars
  /\ InitToolVars

NextReplay ==
  \/ FlushStart(1)
  \/ FlushList(1)
  \/ \E ok \in BOOLEAN : FlushRead(1, ok)
  \/ FlushConcat(1)
  \/ \E ok \in BOOLEAN : FlushDescribe(1, ok)
  \/ \E ok \in BOOLEAN : FlushInsertLocal(1, ok)
  \/ \E ok \in BOOLEAN : FlushInsertRemote(1, ok)
  \/ \E ok \in BOOLEAN, d \in Dests : FlushOptimize(1, ok, d)
  \/ \E ok \in BOOLEAN : FlushDelete(1, ok)
  \/ FlushCleared(1)
  \/ FlushReturn(1)

SpecReplay == InitReplay /\ [][NextReplay]_vars

\* ---------------------------------------------------------------- claims
Ret(p) == fl[p].pc = "ret"
ReadSome(p) == fl[p].valid_files # <<>>
BothOk(p) == fl[p].local = "ok" /\ fl[p].remote = "ok"
Reconciled(p) == Ret(p) /\ fl[p].df.rows # <<>>
InStaging(r) ==
  \E pr \in Prefixes, t \in Times : r \in Range(staging[pr][t].rows)
Delivered(d, r) == \E tb \in Tables : dest[d][tb][r] >= 1
Staged == 1..(nextRow - 1)

\* C1 as stated: when a flush_prefix call that read a batch returns, the
\* files it read have been removed if and only if both inserts succeeded,
\* and after a failed insert every listed file is still on disk.
C1_Original ==
  (Ret(1) /\ ReadSome(1)) =>
    /\ (fl[1].removed = Range(fl[1].valid_files)) <=> BothOk(1)
    /\ (~BothOk(1)) => \A f \in Range(fl[1].files) : Present(Prefix(1), f)

\* C1 amended: a file is removed only if both inserts succeeded; when both
\* succeeded every file read is removed except those whose os.remove
\* raised; after a failed insert nothing is removed and every listed file is
\* still on disk when the call returns.
C1_RemovedOnlyAfterBothInserts ==
  /\ (fl[1].removed # {}) => BothOk(1)
  /\ (Ret(1) /\ ReadSome(1)) =>
       /\ BothOk(1) =>
            /\ fl[1].removed \cup fl[1].delfail = Range(fl[1].valid_files)
            /\ fl[1].removed \cap fl[1].delfail = {}
            /\ \A f \in fl[1].delfail : Present(Prefix(1), f)
       /\ (~BothOk(1)) =>
            /\ fl[1].removed = {}
            /\ \A f \in Range(fl[1].files) : Present(Prefix(1), f)

C1_Witness ==
  /\ Ret(1) /\ BothOk(1)
  /\ fl[1].removed # {}
  /\ fl[1].delfail # {}

\* C2 as stated (safety half): every staged row is still in a staging file
\* or was delivered at least once to both destinations.
C2_NeverLose ==
  \A r \in Staged :
    InStaging(r) \/ (Delivered("local", r) /\ Delivered("remote", r))

Recon(d, p) == Filter(schema[d], fl[p].df.cols)
Other(d) == IF d = "local" THEN "remote" ELSE "local"

\* C4 as stated: when the batch shares no column with exactly one
\* destination, the insert is still attempted at the other destination.
C4_Original ==
  Reconciled(1) =>
    \A d \in Dests :
      (Recon(d, 1) = <<>> /\ Recon(Other(d), 1) # <<>>) =>
        fl[1][Other(d)] # "none"

\* C4 amended: the column list is reconciled once for both destinations;
\* when the batch shares no column with one of them the list is empty, no
\* insert is attempted at either destination, no file is removed, and the
\* call returns normally with every listed file still on disk.
C4_EmptyReconciliationSkipsBoth ==
  /\ ((fl[1].pc \in {"insert_local", "insert_remote", "optimize", "delete"}) =>
    \A d \in Dests : Recon(d, 1) # <<>>)
  /\ (Reconciled(1) /\ \E d \in Dests : Recon(d, 1) = <<>>) =>
    /\ fl[1].cols = <<>>
    /\ fl[1].local = "none" /\ fl[1].remote = "none"
    /\ fl[1].removed = {}
    /\ \A f \in Range(fl[1].files) : Present(Prefix(1), f)

C4_Witness ==
  /\ Reconciled(1)
  /\ Recon("local", 1) = <<>>
  /\ Recon("remote", 1) # <<>>
  /\ fl[1].remote = "none"

\* position of a column in a column list
Pos(s, c) == CHOOSE i \in 1..Len(s) : s[i] = c

\* C5: the reconciled column list holds exactly the columns present in the
\* local table, the remote table and the batch, each once, in the local
\* table's order, and every INSERT issued names exactly that list.
C5_CommonColumns ==
  (fl[1].pc \in {"insert_local", "insert_remote", "optimize", "delete", "ret"}
     /\ fl[1].df.rows # <<>>) =>
    LET cols == fl[1].cols
    IN /\ Range(cols) =
            Range(schema.local) \cap Range(schema.remote) \cap fl[1].df.cols
       /\ \A i, j \in 1..Len(cols) :
            i < j => Pos(schema.local, cols[i]) < Pos(schema.local, cols[j])
       /\ (fl[1].local # "none") => fl[1].sent["local"] = cols
       /\ (fl[1].remote # "none") => fl[1].sent["remote"] = cols
       /\ (fl[1].local = "none") => fl[1].sent["local"] = <<>>
       /\ (fl[1].remote = "none") => fl[1].sent["remote"] = <<>>

C5_Witness ==
  /\ Ret(1) /\ BothOk(1)
  /\ schema = [local |-> <<"a", "b", "c">>, remote |-> <<"a", "b", "d">>]
  /\ fl[1].df.cols = {"a", "b", "c", "d"}
  /\ fl[1].sent = [d \in Dests |-> <<"a", "b">>]

Quiescent(p) == fl[p].pc # "insert_remote"
Count(d, r) == Sum([tb \in Tables |-> dest[d][tb][r]], Tables)

\* C6: after a flush whose local insert succeeded and whose remote insert
\* failed every file read is still on disk; the local destination holds
\* each row once more than the remote one per such flush; a row is
\* delivered to the remote destination at most once unless an os.remove
\* failed; the rows of a removed file are at both destinations.
C6_ReplayMultiplicity ==
  /\ (Ret(1) /\ fl[1].local = "ok" /\ fl[1].remote = "failed") =>
       \A f \in Range(fl[1].valid_files) : Present(Prefix(1), f)
  /\ Quiescent(1) =>
       \A r \in RowIds : Count("local", r) = Count("remote", r) + partial[r]
  /\ (faults["delete"] = 0) => \A r \in RowIds : Count("remote", r) <= 1
  /\ (Ret(1) /\ fl[1].removed # {}) =>
       \A r \in Range(fl[1].values) : Count("remote", r) >= 1

C6_Witness ==
  /\ Ret(1) /\ BothOk(1)
  /\ fl[1].removed = {1, 2}
  /\ \A r \in {1, 2} :
       partial[r] = 1 /\ Count("local", r) = 2 /\ Count("remote", r) = 1

\* ============================================================ down-sync
Alphabet == "0123456789ABCDEFGHIJKLMNOPQRSTUVWXYZ_abcdefghijklmnopqrstuvwxyz"
Ord(c) == CHOOSE i \in 1..Len(Alphabet) : SubSeq(Alphabet, i, i) = c

\* bytewise order of two names, as ORDER BY name sorts them
StrLess(a, b) ==
  \E i \in 1..(Len(a) + 1) :
    /\ i <= Len(b)
    /\ SubSeq(a, 1, i - 1) = SubSeq(b, 1, i - 1)
    /\ (i = Len(a) + 1 \/ Ord(SubSeq(a, i, i)) < Ord(SubSeq(b, i, i)))

\* faulty variant: a name equal to a keyword is ranked before every other
NameRank_exact(name) ==
  IF name \in {"timestamp", "time", "date"} THEN 0
  ELSE IF Contains(name, "timestamp") THEN 1
  ELSE IF Contains(name, "time") THEN 2
  ELSE IF Contains(name, "date") THEN 3
  ELSE 4

\* the CASE of find_date_column's ORDER BY
NameRank(name) ==
  IF Contains(name, "timestamp") THEN 1
  ELSE IF Contains(name, "time") THEN 2
  ELSE IF Contains(name, "date") THEN 3
  ELSE 4

\* the query of find_date_column over the system.columns rows cs of a table
\* (pairs of name and type): WHERE the type is date/time-like, ORDER BY
\* (rank, name) LIMIT 1; "" stands for the None of an empty result
date_column_query(cs) ==
  LET cand == {c[1] : c \in {x \in cs : IsDateOrTime[x[2]]}}
      Before(a, b) == \/ NameRank(a) < NameRank(b)
                      \/ (NameRank(a) = NameRank(b) /\ StrLess(a, b))
  IN IF cand = {} THEN ""
     ELSE CHOOSE c \in cand : \A d \in cand \ {c} : Before(c, d)

\* find_date_column: the first date/time-typed column by (rank, name), "" if none
find_date_column(key) == date_column_query(Range(TableRec(key).columns))

\* ------------------------------------------------ cursor inference alone
\* column names and types a source table may have
ColumnNames ==
  {"date", "time", "timestamp", "event_time", "block_timestamp", "trade_date", "ts"}
InferTypes == {"DateTime", "Date", "String"}

\* the tables of at most MaxCols columns, as sets of (name, type) rows
ColumnSets ==
  UNION {[N -> InferTypes] : N \in {M \in SUBSET ColumnNames : Cardinality(M) <= MaxCols}}

InitInfer ==
  /\ InitFlushVars
  /\ schema = [local |-> <<"a", "b">>, remote |-> <<"a", "b">>]
  /\ InitSyncVars
  /\ InitToolVars
  /\ \E f \in ColumnSets : columns = {<<n, f[n]>> : n \in DOMAIN f}
  /\ picked = "unasked"

\* find_date_column is called on the table
Infer ==
  /\ picked = "unasked"
  /\ picked' = date_column_query(columns)
  /\ UNCHANGED <<flushVars, syncVars, toolVars, columns>>

NextInfer == Infer

SpecInfer == InitInfer /\ [][NextInfer]_vars

\* faulty variant: the override is used without asking the source for it
resolve_cursor_unchecked(key, probe) ==
  IF key \in DOMAIN CURSOR_OVERRIDES THEN CURSOR_OVERRIDES[key]
  ELSE find_date_column(key)

\* sync_database, "Determine cursor column": the override when the source
\* reports that column, otherwise the inferred column
resolve_cursor(key, probe) ==
  IF key \in DOMAIN CURSOR_OVERRIDES /\ probe = "found"
    THEN CURSOR_OVERRIDES[key]
    ELSE find_date_column(key)

\* faulty variant: the watermark is rounded up to the next whole unit
format_watermark_roundup(col_type, max_date) ==
  IF IsDateOnly[col_type]
    THEN FloorTo(max_date + TicksPerDay - 1, TicksPerDay)
    ELSE FloorTo(max_date + TicksPerSec - 1, TicksPerSec)

\* max_str: strftime("%Y-%m-%d") for a date-only column, otherwise
\* strftime("%Y-%m-%d %H:%M:%S"), which drops the fraction of a second
format_watermark(col_type, max_date) ==
  IF IsDateOnly[col_type]
    THEN FloorTo(max_date, TicksPerDay)
    ELSE FloorTo(max_date, TicksPerSec)

RowsOf(key) == {k \in RowKinds : k[1] = key}
SrcRowsOf(key) == {k \in RowsOf(key) : srcRows[k] > 0}
TgtRowsOf(key) == {k \in RowsOf(key) : tgtRows[k] > 0}
Maximum(S) == CHOOSE x \in S : \A y \in S : y <= x

Db(p) == DATABASES_TO_SYNC[sy[p].dbi]
Key(p) == <<Db(p), sy[p].tables[sy[p].ti]>>

SyncFault(ok) ==
  /\ (~ok) => sfaults < MaxSyncFaults
  /\ sfaults' = IF ok THEN sfaults ELSE sfaults + 1

\* the per-table fields of a syncer, cleared when the loop takes a table;
\* erred records that a table of this sync_database call met an error,
\* attempted that sync_table_incremental was called for the table
TableFields(rec, pc, ti) ==
  [IdleSync EXCEPT !.pc = pc, !.dbi = rec.dbi, !.ti = ti, !.tables = rec.tables,
                   !.erred = rec.erred]

\* sync_database returned: main() takes the next database
NextDatabase(rec) ==
  IF rec.dbi < Len(DATABASES_TO_SYNC)
    THEN [IdleSync EXCEPT !.pc = "db", !.dbi = rec.dbi + 1]
    ELSE [IdleSync EXCEPT !.pc = "done"]

\* faulty variant: the skip-list is not consulted
Skipped_never(db, table) == FALSE

\* (database, table_name) in SKIP_TABLES
Skipped(db, table) == <<db, table>> \in SKIP_TABLES

RECURSIVE Unskipped(_, _, _)
\* the first index from i on of a table that is not on the skip-list
\* (if (database, table_name) in SKIP_TABLES: continue), 0 if there is none
Unskipped(db, tables, i) ==
  IF i > Len(tables) THEN 0
  ELSE IF Skipped(db, tables[i]) THEN Unskipped(db, tables, i + 1)
  ELSE i

\* the for loop of sync_database takes the next table
NextTable(rec) ==
  LET i == Unskipped(DATABASES_TO_SYNC[rec.dbi], rec.tables, rec.ti + 1)
  IN IF i = 0 THEN NextDatabase(rec) ELSE TableFields(rec, "exists", i)

\* the cloud source gains a row
SourceWrite(key, tick) ==
  /\ <<key, tick>> \in RowKinds
  /\ srcRows' = [srcRows EXCEPT ![<<key, tick>>] = @ + 1]
  /\ settled' = settled \ {key}
  /\ UNCHANGED <<flushVars, inferVars, toolVars, copies, tgtDbs, tgtTables, tgtRows, sy, sfaults, sruns>>

\* main() of the down-sync is started
SyncStart(p) ==
  /\ sy[p].pc \in {"idle", "done", "crashed"}
  /\ sruns < MaxSyncRuns
  /\ sruns' = sruns + 1
  /\ sy' = [sy EXCEPT ![p] = [IdleSync EXCEPT !.pc = "db", !.dbi = 1]]
  /\ UNCHANGED <<flushVars, inferVars, toolVars, copies, srcRows, tgtDbs, tgtTables, tgtRows, sfaults, settled>>

\* create_database_if_not_exists, outside any try: an error ends the run
SyncCreateDatabase(p, ok) ==
  /\ sy[p].pc = "db"
  /\ SyncFault(ok)
  /\ tgtDbs' = IF ok THEN tgtDbs \cup {Db(p)} ELSE tgtDbs
  /\ sy' = [sy EXCEPT ![p].pc = IF ok THEN "tables" ELSE "crashed"]
  /\ UNCHANGED <<flushVars, inferVars, toolVars, copies, srcRows, tgtTables, tgtRows, sruns, settled>>

\* get_tables_in_database: views excluded, by name; an error or an empty
\* list returns from sync_database
SyncListTables(p, ok) ==
  /\ sy[p].pc = "tables"
  /\ SyncFault(ok)
  /\ LET all == SourceTables[Db(p)]
         RECURSIVE Names(_)
         Names(i) ==
           IF i > Len(all) THEN <<>>
           ELSE (IF all[i].engine \in {"View", "MaterializedView"} THEN <<>>
                 ELSE <<all[i].name>>) \o Names(i + 1)
         tables == Names(1)
     IN sy' = [sy EXCEPT ![p] =
          IF ~ok \/ tables = <<>> THEN NextDatabase(@)
          ELSE NextTable([@ EXCEPT !.tables = tables, !.ti = 0])]
  /\ UNCHANGED <<flushVars, inferVars, toolVars, copies, srcRows, tgtDbs, tgtTables, tgtRows, sruns, settled>>

\* faulty variant: the initial copy is run whether or not the table exists
AfterExists_always(exists) == "create"

\* if not local_table_exists(...): sync_table_initial(...)
AfterExists(exists) == IF exists THEN "resolve" ELSE "create"

\* local_table_exists, inside the per-table try
SyncExists(p, ok) ==
  /\ sy[p].pc = "exists"
  /\ SyncFault(ok)
  /\ sy' = [sy EXCEPT
       ![p].erred = @ \/ ~ok,
       ![p].pc = IF ~ok THEN "failed" ELSE AfterExists(Key(p) \in tgtTables)]
  /\ UNCHANGED <<flushVars, inferVars, toolVars, copies, srcRows, tgtDbs, tgtTables, tgtRows, sruns, settled>>

\* sync_table_initial: SHOW CREATE TABLE, conversion, CREATE TABLE
SyncCreate(p, ok) ==
  /\ sy[p].pc = "create"
  /\ SyncFault(ok)
  /\ LET created == ok /\ Key(p) \notin tgtTables
     IN /\ tgtTables' = IF created THEN tgtTables \cup {Key(p)} ELSE tgtTables
        /\ sy' = [sy EXCEPT ![p].pc = IF created THEN "copy" ELSE "failed",
                            ![p].erred = @ \/ ~created]
  /\ UNCHANGED <<flushVars, inferVars, toolVars, copies, srcRows, tgtDbs, tgtRows, sruns, settled>>

\* faulty variant: a table just copied is not synced incrementally
AfterBootstrap_skip(ok) == IF ok THEN "tret" ELSE "failed"

\* sync_table_initial returned: the body goes on to the cursor column; its
\* exception leaves the body through the except clause
AfterBootstrap(ok) == IF ok THEN "resolve" ELSE "failed"

\* sync_table_initial: the unfiltered INSERT ... SELECT; an error is re-raised
SyncCopy(p, ok) ==
  /\ sy[p].pc = "copy"
  /\ SyncFault(ok)
  /\ tgtRows' = IF ok THEN [k \in RowKinds |->
                     IF k \in RowsOf(Key(p)) THEN tgtRows[k] + srcRows[k]
                     ELSE tgtRows[k]]
                ELSE tgtRows
  /\ settled' = settled \ {Key(p)}
  /\ copies' = [copies EXCEPT ![Key(p)] = @ + 1]
  /\ sy' = [sy EXCEPT ![p].pc = AfterBootstrap(ok),
                      ![p].bootstrapped = ok,
                      ![p].erred = @ \/ ~ok]
  /\ UNCHANGED <<flushVars, inferVars, toolVars, srcRows, tgtDbs, tgtTables, sruns>>

\* sync_database, "Determine cursor column": remote_column_exists turns an
\* error into False; find_date_column is asked when the override is not used
SyncResolve(p, probeOk, inferOk) ==
  /\ sy[p].pc = "resolve"
  /\ LET key == Key(p)
         hasOverride == key \in DOMAIN CURSOR_OVERRIDES
         probe == IF ~hasOverride THEN "none"
                  ELSE IF ~probeOk THEN "failed"
                  ELSE IF HasColumn(key, CURSOR_OVERRIDES[key]) THEN "found"
                  ELSE "missing"
         infers == probe # "found"
         date_column == resolve_cursor(key, probe)
         n == (IF probeOk THEN 0 ELSE 1) + (IF inferOk THEN 0 ELSE 1)
     IN /\ (~probeOk) => hasOverride
        /\ (~inferOk) => infers
        /\ sfaults + n <= MaxSyncFaults
        /\ sfaults' = sfaults + n
        /\ sy' = [sy EXCEPT
             ![p].probe = probe,
             ![p].inferred = infers /\ inferOk,
             ![p].date_column = IF inferOk THEN date_column ELSE "",
             ![p].erred = @ \/ n > 0,
             ![p].pc = IF ~inferOk THEN "failed"
                       ELSE IF date_column = "" THEN "tret" ELSE "max"]
  /\ UNCHANGED <<flushVars, inferVars, toolVars, copies, srcRows, tgtDbs, tgtTables, tgtRows, sruns, settled>>

\* get_local_max_date and the formatting of the watermark; an error or a
\* None maximum skips the incremental sync. emptyMax is what max() yields
\* over an empty table: NULL, or the default of the column's type.
SyncMax(p, ok, emptyMax) ==
  /\ sy[p].pc = "max"
  /\ SyncFault(ok)
  /\ LET key == Key(p)
         col_type == ColumnType(key, sy[p].date_column)
         held == {Stored(col_type, k[2]) : k \in TgtRowsOf(key)}
         max_date == IF held = {} THEN emptyMax ELSE Maximum(held)
     IN sy' = [sy EXCEPT ![p] =
          IF ~ok \/ max_date = Null
            THEN [@ EXCEPT !.pc = "tret", !.erred = @ \/ ~ok, !.attempted = TRUE]
          ELSE [@ EXCEPT !.max_date = max_date,
                         !.attempted = TRUE,
                         !.col_type = col_type,
                         !.max_str = format_watermark(col_type, max_date),
                         !.pc = "insert"]]
  /\ UNCHANGED <<flushVars, inferVars, toolVars, copies, srcRows, tgtDbs, tgtTables, tgtRows, sruns, settled>>

\* INSERT ... SELECT ... WHERE date_column > max_str, then the count query
SyncInsert(p, res) ==
  /\ sy[p].pc = "insert"
  /\ res \in {"ok", "failed", "count_failed"}
  /\ SyncFault(res = "ok")
  /\ LET key == Key(p)
         new == {k \in SrcRowsOf(key) :
                   Stored(sy[p].col_type, k[2]) > sy[p].max_str}
         applied == res # "failed"
     IN /\ tgtRows' = IF applied
                        THEN [k \in RowKinds |->
                                IF k \in new THEN tgtRows[k] + srcRows[k]
                                ELSE tgtRows[k]]
                        ELSE tgtRows
        /\ settled' = IF res = "ok" THEN settled \cup {key} ELSE settled \ {key}
        /\ sy' = [sy EXCEPT ![p].insert = res,
                            ![p].inserted = IF applied THEN new ELSE {},
                            ![p].wasSettled = key \in settled,
                            ![p].erred = @ \/ res # "ok",
                            ![p].pc = "tret"]
  /\ UNCHANGED <<flushVars, inferVars, toolVars, copies, srcRows, tgtDbs, tgtTables, sruns>>

\* faulty variant: an error in one table ends the loop over the tables
AfterTable_abort(rec) ==
  IF rec.pc = "failed" THEN NextDatabase(rec) ELSE NextTable(rec)

\* the except clause of the loop body only prints: the loop goes on
AfterTable(rec) == NextTable(rec)

\* end of the loop body, normally or through the per-table except clause
SyncTableDone(p) ==
  /\ sy[p].pc \in {"tret", "failed"}
  /\ sy' = [sy EXCEPT ![p] = AfterTable(@)]
  /\ UNCHANGED <<flushVars, inferVars, toolVars, copies, srcRows, tgtDbs, tgtTables, tgtRows, sfaults, sruns, settled>>

InitSync ==
  /\ InitFlushVars
  /\ schema = [local |-> <<"a", "b">>, remote |-> <<"a", "b">>]
  /\ InitSyncVars
  /\ InitInferVars
  /\ InitToolVars

NextSync ==
  \/ /\ Sum(srcRows, RowKinds) < MaxSrcRows
     /\ \E k \in RowKinds : SourceWrite(k[1], k[2])
  \/ SyncStart(1)
  \/ \E ok \in BOOLEAN : SyncCreateDatabase(1, ok)
  \/ \E ok \in BOOLEAN : SyncListTables(1, ok)
  \/ \E ok \in BOOLEAN : SyncExists(1, ok)
  \/ \E ok \in BOOLEAN : SyncCreate(1, ok)
  \/ \E ok \in BOOLEAN : SyncCopy(1, ok)
  \/ \E probeOk, inferOk \in BOOLEAN : SyncResolve(1, probeOk, inferOk)
  \/ \E ok \in BOOLEAN, emptyMax \in {Null, Epoch} : SyncMax(1, ok, emptyMax)
  \/ \E res \in {"ok", "failed", "count_failed"} : SyncInsert(1, res)
  \/ SyncTableDone(1)

SpecSync == InitSync /\ [][NextSync]_vars

\* the source tables the job never syncs: skip-list entries and views
ExcludedTables ==
  {k \in TableKeys :
     k \in SKIP_TABLES \/ TableRec(k).engine \in {"View", "MaterializedView"}}

\* the down-sync against a target that already has the excluded tables
\* (left there by an earlier version of the job), empty
InitSyncExisting ==
  /\ InitFlushVars
  /\ schema = [local |-> <<"a", "b">>, remote |-> <<"a", "b">>]
  /\ InitInferVars
  /\ InitToolVars
  /\ srcRows = [k \in RowKinds |-> 0]
  /\ tgtDbs = {k[1] : k \in ExcludedTables}
  /\ tgtTables = ExcludedTables
  /\ tgtRows = [k \in RowKinds |-> 0]
  /\ sy = [p \in Syncers |-> IdleSync]
  /\ sfaults = 0
  /\ sruns = 0
  /\ settled = {}
  /\ copies = [k \in TableKeys |-> 0]

SpecSyncExisting == InitSyncExisting /\ [][NextSync]_vars

\* ---------------------------------------------------- down-sync claims
Applied(p) == sy[p].pc = "tret" /\ sy[p].insert \in {"ok", "count_failed"}
InsertStep(p) == sy[p].pc = "insert" /\ sy'[p].pc = "tret" /\ sy'[p].insert = "ok"
Resolved(p) == sy[p].pc \in {"max", "insert", "tret"} /\ sy[p].date_column # ""
HasOverride(p) == Key(p) \in DOMAIN CURSOR_OVERRIDES

\* C7 as stated: an incremental sync of a table whose previous incremental
\* sync succeeded, with no write to the source since, inserts no row.
C7_SecondCallInsertsNothing ==
  (Applied(1) /\ sy[1].wasSettled) => sy[1].inserted = {}

\* C8 as stated: when a run has created and copied a table and then run the
\* incremental sync on it, the target holds no row more often than the
\* source does.
C8_NoDuplicateAfterBootstrap ==
  (sy[1].pc = "tret" /\ sy[1].bootstrapped) =>
    \A k \in RowsOf(Key(1)) : tgtRows[k] <= srcRows[k]

\* C9 as stated: when an incremental insert succeeds, every row the source
\* holds for the table is at the target.
C9_Original ==
  [][InsertStep(1) => \A k \in RowsOf(Key(1)) : tgtRows'[k] >= srcRows'[k]]_vars

\* C9 amended: when an incremental insert succeeds, every source row whose
\* cursor value is greater than the maximum the run read at the target is
\* at the target, and no row whose cursor value is at most the formatted
\* watermark is copied by it.
C9_RowsAboveWatermarkSynced ==
  [][InsertStep(1) =>
       \A k \in RowsOf(Key(1)) :
         /\ (Stored(sy[1].col_type, k[2]) > sy[1].max_date) =>
              tgtRows'[k] >= srcRows'[k]
         /\ (Stored(sy[1].col_type, k[2]) <= sy[1].max_str) =>
              tgtRows'[k] = tgtRows[k]]_vars

C9_Witness ==
  /\ sy[1].pc = "tret" /\ sy[1].insert = "ok"
  /\ ~sy[1].bootstrapped
  /\ sy[1].inserted # {}
  /\ \E k \in SrcRowsOf(Key(1)) :
       Stored(sy[1].col_type, k[2]) <= sy[1].max_str /\ tgtRows[k] = 0

\* C10 as stated: a table with an override entry is synced on the override
\* column, and inference is used only for tables without an entry.
C10_Original ==
  (Resolved(1) /\ HasOverride(1)) =>
    (sy[1].date_column = CURSOR_OVERRIDES[Key(1)] /\ ~sy[1].inferred)

\* C10 amended: the override column is the cursor exactly when the table
\* has an override entry and the source reports that column; otherwise
\* (no entry, column missing at the source, or the existence query failing)
\* the cursor is the column inferred from the source table's columns. The
\* cursor is always a column of the source table.
C10_OverrideWhenPresent ==
  Resolved(1) =>
    /\ HasColumn(Key(1), sy[1].date_column)
    /\ (sy[1].probe = "found") =>
         (HasOverride(1) /\ HasColumn(Key(1), CURSOR_OVERRIDES[Key(1)]))
    /\ IF HasOverride(1) /\ sy[1].probe = "found"
         THEN sy[1].date_column = CURSOR_OVERRIDES[Key(1)] /\ ~sy[1].inferred
         ELSE sy[1].date_column = find_date_column(Key(1)) /\ sy[1].inferred
    /\ (HasOverride(1) /\ HasColumn(Key(1), CURSOR_OVERRIDES[Key(1)])
          /\ sy[1].probe # "failed") => sy[1].probe = "found"

C10_Witness ==
  /\ Resolved(1) /\ HasOverride(1)
  /\ sy[1].inferred
  /\ sy[1].date_column # CURSOR_OVERRIDES[Key(1)]

\* ------------------------------------------------ cursor inference claims
Asked == picked # "unasked"
Candidates == {c[1] : c \in {x \in columns : IsDateOrTime[x[2]]}}
Keywords == <<"timestamp", "time", "date">>
ExactMatch(name) == name \in Range(Keywords)
SubstringMatch(name) == \E k \in Range(Keywords) : Contains(name, k)
\* position of the first ranked keyword a name contains, Len(Keywords) + 1 if none
MatchedKeyword(name) ==
  IF SubstringMatch(name)
    THEN CHOOSE i \in 1..Len(Keywords) :
           /\ Contains(name, Keywords[i])
           /\ \A j \in 1..(i - 1) : ~Contains(name, Keywords[j])
    ELSE Len(Keywords) + 1

\* C11 as stated: a date/time column named exactly by a keyword is picked
\* over one that only contains a keyword, and either over any other
\* date/time column.
C11_Original ==
  Asked =>
    /\ (Candidates # {}) => picked \in Candidates
    /\ (\E c \in Candidates : ExactMatch(c)) => ExactMatch(picked)
    /\ (\E c \in Candidates : SubstringMatch(c)) => SubstringMatch(picked)

\* C11 amended: find_date_column returns a date/time-typed column exactly
\* when there is one; no date/time column contains an earlier keyword of
\* (timestamp, time, date) than the column picked; among the columns whose
\* first contained keyword is the same, the bytewise smallest name is
\* picked, whether or not a name equals the keyword; exactly one column
\* meets these conditions.
C11_RankThenName ==
  Asked =>
    /\ (Candidates = {}) <=> (picked = "")
    /\ (Candidates # {}) =>
         /\ picked \in Candidates
         /\ \A c \in Candidates : MatchedKeyword(picked) <= MatchedKeyword(c)
         /\ \A c \in Candidates \ {picked} :
              (MatchedKeyword(c) = MatchedKeyword(picked)) => StrLess(picked, c)
         /\ \A c \in Candidates :
              (\A d \in Candidates \ {c} :
                 \/ MatchedKeyword(c) < MatchedKeyword(d)
                 \/ (MatchedKeyword(c) = MatchedKeyword(d) /\ StrLess(c, d)))
                => c = picked

C11_Witness ==
  /\ Asked
  /\ "time" \in Candidates
  /\ picked = "event_time"

\* ---------------------------------------------- down-sync error handling
TablePcs == {"exists", "create", "copy", "resolve", "max", "insert", "tret", "failed"}

\* C12: an error met while a table is bootstrapped or incrementally synced
\* never ends the run, and the loop over the tables of a database is left
\* only after its last table that is not on the skip-list: every later
\* table is still processed.
C12_LaterTablesProcessed ==
  /\ [](sy[1].pc = "crashed" => sy[1].ti = 0)
  /\ [][(sy[1].pc \in TablePcs /\ sy'[1].pc \notin TablePcs) =>
          /\ sy'[1].pc \in {"db", "done"}
          /\ Unskipped(Db(1), sy[1].tables, sy[1].ti + 1) = 0]_vars
  /\ [][(sy[1].pc \in TablePcs /\ sy[1].erred /\ sy'[1].pc \in TablePcs) =>
          /\ sy'[1].erred
          /\ sy'[1].ti \in {sy[1].ti, Unskipped(Db(1), sy[1].tables, sy[1].ti + 1)}]_vars

C12_Witness ==
  /\ sy[1].pc = "insert"
  /\ sy[1].erred
  /\ sy[1].probe # "failed"
  /\ sy[1].ti = Len(sy[1].tables)
  /\ sy[1].ti > 1

\* ------------------------------------------------- flush error handling
\* C13 as stated: no failure met while one category is flushed ends the run
\* of main() with an uncaught error, and a run that entered the loop over
\* the categories ends only after the last category.
C13_CategoriesIsolated ==
  /\ fl[1].pc # "crashed"
  /\ (fl[1].pc = "done" /\ fl[1].idx > 0) => fl[1].idx = Len(PREFIX_TABLES)

\* ------------------------------------------------------- staging claims
\* Row identities are handed out in the order the rows are appended, so a
\* row appended earlier has the smaller identity.

\* C14 as stated: the rows handed to the destination inserts are in the
\* order their batches were appended.
C14_CreationOrder ==
  \A i, j \in 1..Len(fl[1].values) :
    i < j => fl[1].values[i] < fl[1].values[j]

\* C15 as stated: a batch file, once written, is never changed: it stays
\* as it is until it is deleted, whatever clock value a later save reads.
C15_BatchesImmutable ==
  [][\A pr \in Prefixes, t \in Times :
       Present(pr, t) => staging'[pr][t] \in {staging[pr][t], Absent}]_vars

\* rows of the batch files as they are on disk
RowsIn(pr, S) == UNION {Range(staging[pr][t].rows) : t \in S}
PastRead(p) ==
  fl[p].pc \in {"describe", "insert_local", "insert_remote", "optimize", "delete", "ret"}

\* C16: a batch file whose read raised is skipped: every other listed file
\* is still read, the rows inserted are those of the files read, the files
\* read are deleted after both inserts succeeded, and the unreadable file
\* is neither inserted nor deleted by that flush, so it is on disk when
\* the call returns; a file is only ever deleted by the flush that read it.
C16_UnreadableBatchSkipped ==
  /\ []((PastRead(1) /\ fl[1].files # <<>>) =>
          /\ fl[1].unreadable \cap Range(fl[1].valid_files) = {}
          /\ fl[1].unreadable \cup Range(fl[1].valid_files) = Range(fl[1].files)
          /\ Len(fl[1].dfs) = Len(fl[1].valid_files)
          /\ \A f \in fl[1].unreadable :
               /\ Present(Prefix(1), f)
               /\ f \notin fl[1].removed
               /\ Range(staging[Prefix(1)][f].rows) \cap Range(fl[1].values) = {}
          /\ (fl[1].local # "none") =>
               Range(fl[1].values) = UNION {Range(fl[1].dfs[i].rows) : i \in 1..Len(fl[1].dfs)}
          /\ (Ret(1) /\ BothOk(1)) =>
               fl[1].removed \cup fl[1].delfail = Range(fl[1].valid_files))
  /\ [][\A pr \in Prefixes, t \in Times :
          (Present(pr, t) /\ staging'[pr][t] = Absent) =>
            /\ fl[1].pc = "delete" /\ pr = Prefix(1)
            /\ t \in Range(fl[1].valid_files) \ fl[1].unreadable]_vars

C16_Witness ==
  /\ Ret(1) /\ BothOk(1)
  /\ fl[1].unreadable # {}
  /\ fl[1].removed # {}
  /\ fl[1].delfail = {}
  /\ RowsIn(Prefix(1), fl[1].unreadable) # {}

\* C17: OPTIMIZE is issued exactly by the flushes of a ReplacingMergeTree
\* prefix whose two inserts succeeded, and when it fails at either target
\* the flush still goes through its delete loop: every file read is
\* removed unless its own os.remove raised.
C17_CompactionBestEffort ==
  /\ (fl[1].optimize # "none") =>
       (Prefix(1) \in REPLACING_MERGE_TREE_PREFIXES /\ BothOk(1))
  /\ (Ret(1) /\ BothOk(1)) =>
       /\ (fl[1].optimize # "none") <=> (Prefix(1) \in REPLACING_MERGE_TREE_PREFIXES)
       /\ fl[1].removed \cup fl[1].delfail = Range(fl[1].valid_files)
       /\ \A f \in fl[1].removed : f \notin fl[1].delfail

C17_Witness ==
  /\ Ret(1)
  /\ fl[1].optimize = "failed_remote"
  /\ fl[1].removed = Range(fl[1].valid_files)
  /\ fl[1].removed # {}
  /\ \A f \in fl[1].removed : ~Present(Prefix(1), f)

\* ------------------------------------------------------- replay claims
TableOf(pr) ==
  PREFIX_TABLES[CHOOSE i \in 1..Len(PREFIX_TABLES) : PREFIX_TABLES[i][1] = pr][2]
\* the distinct rows a destination table holds
Support(d, tb) == {r \in RowIds : dest[d][tb][r] >= 1}
\* the rows of a category: those still staged and those delivered
KnownRows(pr) ==
  RowsIn(pr, Times) \cup Support("local", TableOf(pr)) \cup Support("remote", TableOf(pr))

C19_BootstrapOnlyWhenAbsent ==
  /\ (sy[1].pc = "create") => Key(1) \notin tgtTables
  /\ (sy[1].pc = "copy") =>
       /\ Key(1) \in tgtTables
       /\ copies[Key(1)] = 0
       /\ TgtRowsOf(Key(1)) = {}
  /\ \A k \in TableKeys :
       /\ copies[k] <= 1
       /\ (copies[k] = 1) => k \in tgtTables

C19_Witness ==
  /\ sruns > 1
  /\ sy[1].pc = "resolve"
  /\ ~sy[1].bootstrapped
  /\ copies[Key(1)] = 1
  /\ SrcRowsOf(Key(1)) # {}

\* C20 as stated: the incremental INSERT is issued only when the maximum
\* cursor value of the target was read and the target table holds a row.
C20_NoInsertOnEmptyTarget ==
  (sy[1].pc = "insert") => TgtRowsOf(Key(1)) # {}

\* --------------------------------------------------- down-sync scoping
\* C21: the loop over the tables never takes a table of the skip-list or
\* a view, so none of the statements of the loop body (existence check,
\* CREATE TABLE, full copy, watermark query, incremental INSERT) is issued
\* for it, whether it exists at the target or not; no full copy is ever
\* issued for it and it is never created at the target.
C21_ExcludedTablesUntouched ==
  /\ (sy[1].pc \in TablePcs) => Key(1) \notin ExcludedTables
  /\ \A i \in 1..Len(sy[1].tables) :
       TableRec(<<Db(1), sy[1].tables[i]>>).engine \notin {"View", "MaterializedView"}
  /\ \A k \in ExcludedTables : copies[k] = 0
  /\ (tgtTables \cap ExcludedTables) \in {{}, ExcludedTables}

C21_Witness ==
  /\ sy[1].pc = "done"
  /\ sruns = MaxSyncRuns
  /\ ExcludedTables \subseteq tgtTables
  /\ <<"maicro_logs", "live_trades">> \in tgtTables
  /\ \E k \in RowKinds : tgtRows[k] > 0

\* ------------------------------------------------- down-sync orchestration
\* the table has a cursor column: the override the source reported, or an
\* inferred one
Resolvable(p) == sy[p].probe = "found" \/ find_date_column(Key(p)) # ""

\* C22: sync_table_incremental is called only for a table that exists at
\* the target, after the existence check and the bootstrap of the same
\* loop turn; every loop turn that ends without an exception, for a table
\* with a cursor column, has called it, whether the table existed or was
\* just created and copied; a turn ended by an exception has not.
C22_IncrementalAfterBootstrap ==
  /\ sy[1].attempted =>
       /\ Key(1) \in tgtTables
       /\ sy[1].date_column # ""
       /\ sy[1].pc \in {"insert", "tret"}
  /\ (sy[1].pc = "tret" /\ Resolvable(1)) => sy[1].attempted
  /\ (sy[1].pc = "insert") => sy[1].attempted
  /\ (sy[1].pc = "failed") => (~sy[1].attempted /\ sy[1].erred)
  /\ sy[1].bootstrapped => copies[Key(1)] = 1

C22_Witness ==
  /\ sy[1].pc = "tret"
  /\ sy[1].bootstrapped
  /\ sy[1].attempted
  /\ sy[1].insert = "ok"
  /\ SrcRowsOf(Key(1)) # {}

\* ---------------------------------------------------------------------
\* scripts/register_cron.py: merging the generated block into a crontab
\* ---------------------------------------------------------------------

MaxCron == 3
MaxRegs == 2

\* the checkout the scripts run from
repo_root == "/r"

\* what generate_cron.py prints, line by line (the arrow of the last
\* heading is written in ASCII)
generated_lines ==
  << "# Maicro Monitors scheduled processes",
     "# Add these lines to your crontab (crontab -e)",
     "# REPO_ROOT = " \o repo_root,
     "",
     "# 1. Hyperliquid ingest (buffer-only ping, hourly)",
     "0 * * * * cd " \o repo_root \o " && /usr/bin/python3 scheduled_processes/scheduled_ping_hyperliquid.py >> logs/hyperliquid_ping.log 2>&1",
     "",
     "# 1.2 Hyperliquid buffer flush (every 3 hours, dual-target)",
     "0 */3 * * * cd " \o repo_root \o " && /usr/bin/python3 scheduled_processes/flush_hyperliquid_buffers.py >> logs/hyperliquid_flush.log 2>&1",
     "",
     "# 2. Daily emails (optional)",
     "# Target vs actual positions",
     "0 8 * * * cd " \o repo_root \o " && /usr/bin/python3 scheduled_processes/emails/daily/targets_vs_actuals_daily.py >> logs/email_targets_vs_actuals.log 2>&1",
     "# Table staleness summary",
     "5 8 * * * cd " \o repo_root \o " && /usr/bin/python3 scheduled_processes/emails/daily/table_staleness_daily.py >> logs/email_table_staleness.log 2>&1",
     "",
     "# 3. Cloud -> chenlin down-sync (every 6 hours)",
     "0 */6 * * * cd " \o repo_root \o " && /usr/bin/python3 scheduled_processes/pull_data_downward_from_cloud.py >> logs/pull_from_cloud.log 2>&1",
     "",
     "# Note: Ensure the log directory exists:",
     "#   mkdir -p " \o repo_root \o "/logs" >>

\* the characters str.split() and str.strip() treat as blank
Whitespace == {" ", "\t"}

RECURSIVE lstrip(_)
lstrip(s) ==
  IF s # "" /\ SubSeq(s, 1, 1) \in Whitespace
    THEN lstrip(SubSeq(s, 2, Len(s)))
    ELSE s

RECURSIVE rstrip(_)
rstrip(s) ==
  IF s # "" /\ SubSeq(s, Len(s), Len(s)) \in Whitespace
    THEN rstrip(SubSeq(s, 1, Len(s) - 1))
    ELSE s

strip(s) == lstrip(rstrip(s))

\* the position of the first blank of s, Len(s) + 1 when it has none
FirstBlank(s) ==
  LET B == {i \in 1..Len(s) : SubSeq(s, i, i) \in Whitespace}
  IN IF B = {} THEN Len(s) + 1 ELSE CHOOSE i \in B : \A j \in B : i <= j

RECURSIVE split(_, _)
\* s.split(maxsplit=n): fields separated by runs of blanks, the rest of
\* the string as the last field once n splits were made
split(s, maxsplit) ==
  LET t == lstrip(s)
  IN IF t = "" THEN <<>>
     ELSE IF maxsplit = 0 THEN <<t>>
     ELSE LET j == FirstBlank(t)
          IN <<SubSeq(t, 1, j - 1)>> \o split(SubSeq(t, j, Len(t)), maxsplit - 1)

\* s.split(sep, 1)[1]: what follows the first occurrence of sep
AfterFirst(s, sep) ==
  LET I == {i \in 1..(Len(s) - Len(sep) + 1) : SubSeq(s, i, i + Len(sep) - 1) = sep}
      i == CHOOSE k \in I : \A j \in I : k <= j
  IN SubSeq(s, i + Len(sep), Len(s))

\* the script token one generated line contributes, "" when it
\* contributes none
script_token(line) ==
  LET stripped == strip(line)
      parts == split(stripped, 5)
      cmd0 == parts[6]
      cmd == IF Contains(cmd0, "&&") THEN strip(AfterFirst(cmd0, "&&")) ELSE cmd0
      tokens == split(cmd, Len(cmd))
      token == IF Len(tokens) >= 2 /\ endswith(tokens[1], "python3")
                 THEN tokens[2]
                 ELSE tokens[1]
  IN IF stripped = "" \/ startswith(stripped, "#") THEN ""
     ELSE IF Len(parts) < 6 THEN ""
     ELSE IF tokens = <<>> THEN ""
     ELSE IF Contains(token, "scheduled_processes") \/ Contains(token, "ops/")
       THEN token
       ELSE ""

_extract_script_keys(lines) ==
  {script_token(lines[i]) : i \in 1..Len(lines)} \ {""}

\* the scripts the generated block registers
script_keys == _extract_script_keys(generated_lines)

\* faulty variant: no existing line is taken to reference a script
Referenced_never(line, keys) == FALSE
\* any(key in line for key in script_keys)
Referenced(line, keys) == \E key \in keys : Contains(line, key)

RECURSIVE filtered_current(_, _)
\* the existing lines that reference none of the scripts, in order
filtered_current(current_lines, keys) ==
  IF current_lines = <<>> THEN <<>>
  ELSE (IF Referenced(Head(current_lines), keys) THEN <<>> ELSE <<Head(current_lines)>>)
         \o filtered_current(Tail(current_lines), keys)

RECURSIVE rstrip_lines(_)
\* "\n".join(lines).rstrip(), as lines: blank lines at the end go, and
\* so do the blanks that end the last line left
rstrip_lines(lines) ==
  IF lines = <<>> THEN <<>>
  ELSE IF rstrip(lines[Len(lines)]) = ""
    THEN rstrip_lines(SubSeq(lines, 1, Len(lines) - 1))
    ELSE SubSeq(lines, 1, Len(lines) - 1) \o <<rstrip(lines[Len(lines)])>>

\* the crontab main() installs over the crontab `current_lines`
merged_lines(current_lines) ==
  LET kept == filtered_current(current_lines, script_keys)
      gap == IF kept # <<>> /\ strip(kept[Len(kept)]) # "" THEN <<"">> ELSE <<>>
  IN rstrip_lines(kept \o gap \o generated_lines)

\* lines a user's crontab may hold before a registration: a blank line,
\* a setting, another job, an older entry for a registered script made
\* from another checkout, a commented-out entry for one, an entry that
\* calls one by its absolute path
CronLines ==
  { "",
    "MAILTO=ops@example.com",
    "30 2 * * * /usr/local/bin/backup.sh",
    "*/5 * * * * cd /old && /usr/bin/python3 scheduled_processes/flush_hyperliquid_buffers.py >> logs/flush.log 2>&1",
    "# 5 8 * * * cd /r && /usr/bin/python3 scheduled_processes/emails/daily/table_staleness_daily.py",
    "0 */6 * * * /usr/bin/python3 /r/scheduled_processes/pull_data_downward_from_cloud.py" }

Crontabs == UNION {[1..n -> CronLines] : n \in 0..MaxCron}

InitCron ==
  /\ InitFlushVars
  /\ schema = [local |-> <<"a", "b">>, remote |-> <<"a", "b">>]
  /\ InitSyncVars
  /\ InitInferVars
  /\ InitDdlVars
  /\ crontab \in Crontabs
  /\ previous = <<>>
  /\ registered = 0

\* one run of register_cron.main()
Register ==
  /\ registered < MaxRegs
  /\ crontab' = merged_lines(crontab)
  /\ previous' = crontab
  /\ registered' = registered + 1
  /\ UNCHANGED <<flushVars, syncVars, inferVars, ddlVars>>

NextCron == Register

SpecCron == InitCron /\ [][NextCron]_vars

\* ---------------------------------------------------------------------
\* C23
\* ---------------------------------------------------------------------

\* a cron entry: a line that is neither blank nor a comment
IsEntry(line) == strip(line) # "" /\ ~startswith(strip(line), "#")

\* the entries of a crontab that reference the script
EntriesFor(lines, key) ==
  {i \in 1..Len(lines) : IsEntry(lines[i]) /\ Contains(lines[i], key)}

\* the positions of the lines that reference none of the scripts
Unrelated(lines) ==
  {i \in 1..Len(lines) : \A key \in script_keys : ~Contains(lines[i], key)}

\* C23: after a registration, whatever the crontab was before, every
\* script of the generated block has exactly one cron entry in the
\* installed crontab, and the lines of the old crontab that reference
\* none of those scripts are all there, unchanged and in their old
\* order, ahead of the generated block
C23_MergeKeepsOthers ==
  registered > 0 =>
    /\ Cardinality(script_keys) = 5
    /\ \A key \in script_keys : Cardinality(EntriesFor(crontab, key)) = 1
    /\ LET U == Unrelated(previous)
       IN /\ Len(crontab) >= Cardinality(U)
          /\ \A i \in U :
               crontab[Cardinality({j \in U : j <= i})] = previous[i]

\* a registration over a crontab that held an older entry for a
\* registered script between two lines of other jobs
C23_Witness ==
  /\ registered = 1
  /\ Len(previous) = 3
  /\ previous[1] = "MAILTO=ops@example.com"
  /\ EntriesFor(previous, "scheduled_processes/flush_hyperliquid_buffers.py") = {2}
  /\ previous[3] = "30 2 * * * /usr/local/bin/backup.sh"
  /\ crontab[1] = previous[1]
  /\ crontab[2] = previous[3]

\* ---------------------------------------------------------------------
\* C24
\* ---------------------------------------------------------------------

\* C24 as stated: no failure met while a database is prepared or synced
\* keeps the run from the databases after it: a run ends on an error only
\* while it is on the last database of DATABASES_TO_SYNC, and a failed
\* listing of the source tables moves on to the next database.
C24_DatabasesIsolated ==
  /\ [](sy[1].pc = "crashed" => sy[1].dbi = Len(DATABASES_TO_SYNC))
  /\ [][(sy[1].pc = "tables" /\ sy'[1].pc \notin TablePcs /\ sy[1].dbi < Len(DATABASES_TO_SYNC))
          => (sy'[1].pc = "db" /\ sy'[1].dbi = sy[1].dbi + 1)]_vars

\* ---------------------------------------------------------------------
\* C25
\* ---------------------------------------------------------------------

\* the batches saved for another category while call p was under way
OtherAppended(p) == {a \in fl[p].appended : a.prefix # Prefix(p)}

\* the rows call p read from disk
RowsRead(p) == UNION {Range(fl[p].dfs[i].rows) : i \in 1..Len(fl[p].dfs)}

\* C25: the pattern of a configured category matches the batch files of
\* that category and of no other; the files a flush lists are files of
\* its category; no step of a flush changes a file of another category;
\* and a batch saved for another category while the flush is under way is
\* never read by it and is on disk as saved (or as a later save of the
\* same name left it) for as long as the flush lasts.
C25_CategoryScoped ==
  /\ [](\A pr, q \in CategoryPrefixes, t \in Times :
          glob(FileName(q, t), pr) <=> (pr = q))
  /\ [](Running(1) =>
          /\ \A f \in Range(fl[1].files) \cup Range(fl[1].valid_files) \cup fl[1].removed :
               glob(FileName(Prefix(1), f), Prefix(1))
          /\ \A a \in OtherAppended(1) :
               /\ Range(a.rows) \cap RowsRead(1) = {}
               /\ Range(a.rows) \cap Range(fl[1].values) = {}
               /\ \E b \in OtherAppended(1) :
                    /\ b.prefix = a.prefix /\ b.t = a.t
                    /\ staging[b.prefix][b.t].rows = b.rows)
  /\ [][(fl[1].pc = "list" /\ fl'[1].pc # "list") =>
          \A f \in Range(fl'[1].files) : Present(Prefix(1), f)]_vars
  /\ [][(nextRow' = nextRow /\ Running(1)) =>
          \A q \in Prefixes \ {Prefix(1)} : staging'[q] = staging[q]]_vars

\* a flush of one category has deleted a file while a batch saved for the
\* other category after its listing is on disk as saved
C25_Witness ==
  /\ Ret(1) /\ BothOk(1)
  /\ fl[1].removed # {}
  /\ \E a \in OtherAppended(1) :
       /\ a.listed
       /\ staging[a.prefix][a.t].rows = a.rows

\* ---------------------------------------------------------------------
\* C26
\* ---------------------------------------------------------------------

\* two runs of the down-sync job at once (cron starts the job whether or
\* not the last run has ended), against a target that holds the synced
\* tables but one, each with its oldest row, the source holding a newer
\* row as well
InitSyncOverlap ==
  /\ InitFlushVars
  /\ schema = [local |-> <<"a", "b">>, remote |-> <<"a", "b">>]
  /\ InitInferVars
  /\ InitToolVars
  /\ srcRows = [k \in RowKinds |-> IF k[2] <= 2 * TicksPerDay THEN 1 ELSE 0]
  /\ tgtDbs = Databases
  /\ tgtTables = TableKeys \ (ExcludedTables \cup {<<"maicro_monitors", "hl_meta">>})
  /\ tgtRows = [k \in RowKinds |->
       IF k[2] = TicksPerDay /\ k[1] # <<"maicro_monitors", "hl_meta">> THEN 1 ELSE 0]
  /\ sy = [p \in Syncers |-> IdleSync]
  /\ sfaults = 0
  /\ sruns = 0
  /\ settled = {}
  /\ copies = [k \in TableKeys |-> 0]

NextSyncOverlap ==
  \E p \in Syncers :
    \/ SyncStart(p)
    \/ \E ok \in BOOLEAN : SyncCreateDatabase(p, ok)
    \/ \E ok \in BOOLEAN : SyncListTables(p, ok)
    \/ \E ok \in BOOLEAN : SyncExists(p, ok)
    \/ \E ok \in BOOLEAN : SyncCreate(p, ok)
    \/ \E ok \in BOOLEAN : SyncCopy(p, ok)
    \/ \E probeOk, inferOk \in BOOLEAN : SyncResolve(p, probeOk, inferOk)
    \/ \E ok \in BOOLEAN, emptyMax \in {Null, Epoch} : SyncMax(p, ok, emptyMax)
    \/ \E res \in {"ok", "failed", "count_failed"} : SyncInsert(p, res)
    \/ SyncTableDone(p)

SpecSyncOverlap == InitSyncOverlap /\ [][NextSyncOverlap]_vars

\* the tables whose cursor column keeps whole seconds or whole days, so
\* that the formatted watermark equals the maximum read
WholeUnitTables == DataTables \ {<<"maicro_logs", "live_trades">>}

\* two overlapping runs have read the same watermark of a table and both
\* have inserted the same source rows: the target holds them twice
C26_OverlapDuplicates ==
  /\ sy[1].pc = "tret" /\ sy[2].pc = "tret"
  /\ Key(1) = Key(2)
  /\ Key(1) \in WholeUnitTables
  /\ sy[1].insert = "ok" /\ sy[2].insert = "ok"
  /\ sy[1].max_date = sy[2].max_date
  /\ sy[1].inserted # {} /\ sy[1].inserted = sy[2].inserted
  /\ \A k \in sy[1].inserted : tgtRows[k] = 2 * srcRows[k]

\* C26 as stated (second half): with one run at a time, the target never
\* holds a row more often than the source does.
C26_NoDuplicateWithoutOverlap ==
  \A k \in RowKinds : tgtRows[k] <= srcRows[k]

\* the same over the tables with a whole-second or whole-day cursor
C26_NoDuplicateWholeUnits ==
  \A k \in RowKinds : (k[1] \in WholeUnitTables) => tgtRows[k] <= srcRows[k]

\* ---------------------------------------------------------------------
\* convert_cloud_create_statement: the engine clause of a table definition
\* ---------------------------------------------------------------------

MaxConversions == 2

Drop(s, n) == SubSeq(s, n + 1, Len(s))

RECURSIVE replace(_, _, _)
\* s.replace(old, new): every occurrence, found from the left
replace(s, old, new) ==
  LET I == {i \in 1..(Len(s) - Len(old) + 1) : SubSeq(s, i, i + Len(old) - 1) = old}
      first == CHOOSE i \in I : \A j \in I : i <= j
  IN IF I = {} THEN s
     ELSE SubSeq(s, 1, first - 1) \o new \o replace(Drop(s, first + Len(old) - 1), old, new)

\* the characters \s matches
RegexSpace == {" ", "\t", "\n", "\r"}

RECURSIVE Blanks(_)
\* the length of the longest run of \s characters s starts with
Blanks(s) ==
  IF s # "" /\ SubSeq(s, 1, 1) \in RegexSpace THEN 1 + Blanks(Drop(s, 1)) ELSE 0

\* the alternatives of the pattern's group, in the order they are tried;
\* no two of them can match at the same place
EngineNames == <<"ReplacingMergeTree", "MergeTree", "AggregatingMergeTree">>

NoMatch == [len |-> 0, name |-> ""]

\* the match of
\*   ENGINE\s*=\s*(ReplacingMergeTree|MergeTree|AggregatingMergeTree)\s*\([^)]*\)
\* at the start of s: its length and the name the group took
EngineMatch(s) ==
  LET a == Drop(s, Len("ENGINE"))
      b == Drop(a, Blanks(a))
      c == Drop(b, 1)
      d == Drop(c, Blanks(c))
      I == {i \in 1..Len(EngineNames) : startswith(d, EngineNames[i])}
      name == EngineNames[CHOOSE i \in I : \A j \in I : i <= j]
      e == Drop(d, Len(name))
      f == Drop(e, Blanks(e))
      g == Drop(f, 1)
      Close == {i \in 1..Len(g) : SubSeq(g, i, i) = ")"}
      close == CHOOSE i \in Close : \A j \in Close : i <= j
  IN IF ~startswith(s, "ENGINE") THEN NoMatch
     ELSE IF ~startswith(b, "=") THEN NoMatch
     ELSE IF I = {} THEN NoMatch
     ELSE IF ~startswith(f, "(") THEN NoMatch
     ELSE IF Close = {} THEN NoMatch
     ELSE [len |-> (Len(s) - Len(g)) + close, name |-> name]

RECURSIVE re_sub(_)
\* re.sub(pattern, r"ENGINE = \1()", s): every match, found from the left
re_sub(s) ==
  LET I == {i \in 1..Len(s) : EngineMatch(Drop(s, i - 1)).len > 0}
      first == CHOOSE i \in I : \A j \in I : i <= j
      m == EngineMatch(Drop(s, first - 1))
  IN IF I = {} THEN s
     ELSE SubSeq(s, 1, first - 1) \o "ENGINE = " \o m.name \o "()"
            \o re_sub(Drop(s, first - 1 + m.len))

convert_cloud_create_statement(statement) ==
  re_sub(replace(replace(replace(statement,
    "SharedReplacingMergeTree", "ReplacingMergeTree"),
    "SharedMergeTree", "MergeTree"),
    "SharedAggregatingMergeTree", "AggregatingMergeTree"))

\* the three cloud engines and their on-premise counterparts
CloudEngines ==
  ( "SharedMergeTree" :> "MergeTree" @@
    "SharedReplacingMergeTree" :> "ReplacingMergeTree" @@
    "SharedAggregatingMergeTree" :> "AggregatingMergeTree" )

\* what precedes the engine clause: the columns, plain, and with a column
\* comment that names an engine
Heads ==
  { "CREATE TABLE d.t (id UInt64, ts DateTime)",
    "CREATE TABLE d.t (id UInt64, src String COMMENT 'was SharedMergeTree')" }

\* engine argument lists: none, empty, the cloud's path and replica, the
\* same with a version column, and one with a parenthesised argument
ArgLists ==
  { "",
    "()",
    "('/clickhouse/tables/{uuid}/{shard}', '{replica}')",
    "('/clickhouse/tables/{uuid}/{shard}', '{replica}', ts)",
    "(ts, (id, ts), 8192)" }

\* what follows the engine clause
Tails ==
  { " ORDER BY id",
    " ORDER BY (id, ts) SETTINGS index_granularity = 8192" }

Definitions ==
  [head : Heads, engine : DOMAIN CloudEngines, args : ArgLists, tail : Tails]

\* the statement SHOW CREATE TABLE prints for a definition
Statement(def) == def.head \o " ENGINE = " \o def.engine \o def.args \o def.tail

InitConvert ==
  /\ InitFlushVars
  /\ schema = [local |-> <<"a", "b">>, remote |-> <<"a", "b">>]
  /\ InitSyncVars
  /\ InitInferVars
  /\ InitCronVars
  /\ definition \in Definitions
  /\ create_statement = Statement(definition)
  /\ conversions = 0

\* create_statement = convert_cloud_create_statement(create_statement)
Convert ==
  /\ conversions < MaxConversions
  /\ create_statement' = convert_cloud_create_statement(create_statement)
  /\ conversions' = conversions + 1
  /\ UNCHANGED <<flushVars, syncVars, inferVars, cronVars, definition>>

NextConvert == Convert

SpecConvert == InitConvert /\ [][NextConvert]_vars

\* ---------------------------------------------------------------------
\* C27
\* ---------------------------------------------------------------------

\* the definition with its engine replaced by the on-premise one and its
\* argument list, if it has one, by an empty one
Normalized(def) ==
  def.head \o " ENGINE = " \o CloudEngines[def.engine]
    \o (IF def.args = "" THEN "" ELSE "()") \o def.tail

\* C27 as stated: for every table definition with one of the three cloud
\* engines, the converted statement is the definition with the on-premise
\* engine and an empty argument list, all else unchanged, and a second
\* conversion gives the same statement again.
C27_EngineNormalized ==
  (conversions > 0) => create_statement = Normalized(definition)

\* the definitions that name an engine in the engine clause only and whose
\* argument list holds no parenthesis of its own
Plain(def) ==
  /\ \A e \in DOMAIN CloudEngines : ~Contains(def.head, e) /\ ~Contains(def.tail, e)
  /\ def.args # "" => ~Contains(Drop(def.args, 1), "(")

\* the same for the plain definitions only
C27_PlainNormalized ==
  (conversions > 0 /\ Plain(definition)) => create_statement = Normalized(definition)

\* a second conversion changes nothing
C27_Idempotent ==
  [][conversions > 0 => create_statement' = create_statement]_vars

\* ---------------------------------------------------------------------
\* C28
\* ---------------------------------------------------------------------

\* the batches saved for the category of call p after it listed its files
LateAppended(p) == {a \in fl[p].appended : a.listed /\ a.prefix = Prefix(p)}

\* C28 as stated: a batch saved for the category after the flush listed
\* its files is not among the rows the flush inserts and is not deleted
\* by it: when the flush returns the batch is in staging as it was saved.
C28_LateBatchUntouched ==
  Ret(1) =>
    \A a \in LateAppended(1) :
      /\ Range(a.rows) \cap Range(fl[1].values) = {}
      /\ staging[a.prefix][a.t].rows = a.rows

\* the same for the batches whose file name is new: not the name of a
\* listed file and not taken again by a later save
C28_LateBatchNewName ==
  Ret(1) =>
    \A a \in LateAppended(1) :
      (/\ a.t \notin Range(fl[1].files)
       /\ \A b \in LateAppended(1) : b.t = a.t => b = a) =>
        /\ Range(a.rows) \cap Range(fl[1].values) = {}
        /\ staging[a.prefix][a.t].rows = a.rows

\* a flush has removed the file of a batch that was saved, under the name
\* of a listed file, after the flush had read that file: the rows of the
\* batch are at neither destination and in no file
C28_LateBatchLost ==
  /\ Ret(1) /\ BothOk(1)
  /\ \E a \in LateAppended(1) :
       /\ a.t \in fl[1].removed
       /\ \A r \in Range(a.rows) :
            ~InStaging(r) /\ ~Delivered("local", r) /\ ~Delivered("remote", r)

\* ---------------------------------------------------------------------
\* C29
\* ---------------------------------------------------------------------

\* main() of the down-sync is started once more: cron starts a run every
\* six hours, for as long as the machine is up
SyncStartAgain(p) ==
  /\ sy[p].pc \in {"idle", "done", "crashed"}
  /\ sy' = [sy EXCEPT ![p] = [IdleSync EXCEPT !.pc = "db", !.dbi = 1]]
  /\ UNCHANGED <<flushVars, inferVars, toolVars, copies, srcRows, tgtDbs, tgtTables, tgtRows, sfaults, sruns, settled>>

\* the source holds one row per table, written on a day boundary
InitSyncLive ==
  /\ InitFlushVars
  /\ schema = [local |-> <<"a", "b">>, remote |-> <<"a", "b">>]
  /\ InitInferVars
  /\ InitToolVars
  /\ srcRows = [k \in RowKinds |-> IF k[2] = TicksPerDay THEN 1 ELSE 0]
  /\ tgtDbs = {}
  /\ tgtTables = {}
  /\ tgtRows = [k \in RowKinds |-> 0]
  /\ sy = [p \in Syncers |-> IdleSync]
  /\ sfaults = 0
  /\ sruns = 0
  /\ settled = {}
  /\ copies = [k \in TableKeys |-> 0]

NextSyncLive ==
  \/ SyncStartAgain(1)
  \/ \E ok \in BOOLEAN : SyncCreateDatabase(1, ok)
  \/ \E ok \in BOOLEAN : SyncListTables(1, ok)
  \/ \E ok \in BOOLEAN : SyncExists(1, ok)
  \/ \E ok \in BOOLEAN : SyncCreate(1, ok)
  \/ \E ok \in BOOLEAN : SyncCopy(1, ok)
  \/ \E probeOk, inferOk \in BOOLEAN : SyncResolve(1, probeOk, inferOk)
  \/ \E ok \in BOOLEAN, emptyMax \in {Null, Epoch} : SyncMax(1, ok, emptyMax)
  \/ \E res \in {"ok", "failed", "count_failed"} : SyncInsert(1, res)
  \/ SyncTableDone(1)

\* every run that was started goes on to its end, and runs keep being
\* started; nothing is assumed about what a query answers
SpecSyncLive == InitSyncLive /\ [][NextSyncLive]_vars /\ WF_vars(NextSyncLive)

\* the table was created at the target, its full copy failed, and no
\* statement fails any more
FailedBootstrap(k) ==
  /\ k \in tgtTables
  /\ copies[k] > 0
  /\ TgtRowsOf(k) = {}
  /\ SrcRowsOf(k) # {}
  /\ sfaults = MaxSyncFaults

\* C29 as stated: a table whose bootstrap created it and failed to copy it
\* is eventually filled by the later runs, once nothing fails any more.
C29_EventuallyCopied ==
  \A k \in DataTables : [](FailedBootstrap(k) => <>(TgtRowsOf(k) # {}))

\* a run has skipped the incremental sync of the table because the
\* maximum of the empty target came back as NULL
SkippedOnNull(k) ==
  /\ sy[1].pc = "tret"
  /\ Key(1) = k
  /\ sy[1].attempted
  /\ sy[1].insert = "none"
  /\ TgtRowsOf(k) = {}

\* the same, but for the runs that read NULL as the maximum of the empty
\* table: the table is filled, or a run skips it on a NULL maximum
C29_CopiedUnlessNull ==
  \A k \in DataTables :
    [](FailedBootstrap(k) => <>(TgtRowsOf(k) # {} \/ SkippedOnNull(k)))

\* the failed bootstrap the claim is about
C29_FailedBootstrap ==
  \E k \in DataTables : FailedBootstrap(k) /\ sy[1].pc = "failed" /\ Key(1) = k

\* ---------------------------------------------------------------------
\* C30
\* ---------------------------------------------------------------------

\* two runs of the flush job at once over staged batches, no save: each
\* step is taken by either run
NextOverlap ==
  \E p \in Flushers :
    \/ FlushStart(p)
    \/ FlushList(p)
    \/ \E ok \in BOOLEAN : FlushRead(p, ok)
    \/ FlushConcat(p)
    \/ \E ok \in BOOLEAN : FlushDescribe(p, ok)
    \/ \E ok \in BOOLEAN : FlushInsertLocal(p, ok)
    \/ \E ok \in BOOLEAN : FlushInsertRemote(p, ok)
    \/ \E ok \in BOOLEAN, d \in Dests : FlushOptimize(p, ok, d)
    \/ \E ok \in BOOLEAN : FlushDelete(p, ok)
    \/ FlushCleared(p)
    \/ FlushReturn(p)

SpecOverlap == InitReplay /\ [][NextOverlap]_vars

\* C30: with two flush runs overlapping in any way, every staged row is
\* in a staging file or was inserted into both destinations; a file goes
\* only in the delete loop of a call of its category whose two inserts
\* succeeded and handed over the rows of that file; a row is inserted at
\* a destination at most once per run; and an os.remove on a file the
\* other call has removed does not end the call.
C30_OverlapNeverLoses ==
  /\ [](\A r \in Staged :
          \/ InStaging(r)
          \/ Count("local", r) >= 1 /\ Count("remote", r) >= 1)
  /\ [](\A d \in Dests, r \in RowIds : Count(d, r) <= runs)
  /\ [][\A pr \in Prefixes, t \in Times :
          (Present(pr, t) /\ staging'[pr][t] = Absent) =>
            \E p \in Flushers :
              /\ fl[p].pc = "delete" /\ Prefix(p) = pr
              /\ BothOk(p)
              /\ t \in fl'[p].removed
              /\ Range(staging[pr][t].rows) \subseteq Range(fl[p].values)
              /\ \A r \in Range(staging[pr][t].rows) :
                   dest["local"][Table(p)][r] >= 1 /\ dest["remote"][Table(p)][r] >= 1]_vars
  /\ [][\A p \in Flushers :
          (fl[p].pc = "delete") => fl'[p].pc \in {"delete", "ret"}]_vars

\* both calls are at the end of a flush of the same category, both
\* inserted the same row into both destinations, one removed the file and
\* the other's os.remove of it failed
C30_Witness ==
  /\ Ret(1) /\ Ret(2)
  /\ fl[1].idx = fl[2].idx
  /\ BothOk(1) /\ BothOk(2)
  /\ faults["delete"] = 0
  /\ \E f \in fl[1].removed :
       /\ f \in fl[2].delfail
       /\ ~Present(Prefix(1), f)
  /\ \E r \in Range(fl[1].values) \cap Range(fl[2].values) :
       Count("local", r) = 2 /\ Count("remote", r) = 2

====
